---- MODULE Spec2Model ----
(***************************************************************************)
(* Model of the macroquad FBO benchmark (src/src/main.rs): the frame loop  *)
(* of main, its render paths, the progress reports and the end-of-run      *)
(* statistics.                                                             *)
(*                                                                         *)
(* Time is counted in ticks of 0.25 s.  Sprite geometry, which main.rs     *)
(* computes with sin/cos on f32, is represented by the arguments it is     *)
(* computed from (sprite index, time, visible extent).                     *)
(***************************************************************************)
EXTENDS Integers, Sequences, FiniteSets, TLC

VARIABLES args, textures, pc, panic, material, start_time, now, frame_count,
          frame_times, last_log_time, last_report, gfx, frame_calls,
          frames_presented, results

vars == <<args, textures, pc, panic, material, start_time, now, frame_count,
          frame_times, last_log_time, last_report, gfx, frame_calls,
          frames_presented, results>>

----------------------------------------------------------------------------
(* Bounds of the model *)

MaxDuration == 3
MaxSprites == 2
MaxTextures == 2
StartTime == 1
MaxAdvance == 2
MaxDt == 2
MaxLongDuration == 104

(* Program constants *)

\* window_conf: window_width, window_height
ScreenW == 1920
ScreenH == 1080
\* "now - last_log_time >= 0.5", in ticks of 0.25 s
LogInterval == 2
\* "frame_times.iter().rev().take(30)"
RollingWindow == 30
\* "for i in 0..20" of the background gradient
GradientBands == 20

----------------------------------------------------------------------------
(* Helpers *)

Min(a, b) == IF a <= b THEN a ELSE b

Range(s) == {s[k] : k \in 1..Len(s)}

\* Sum of s[lo..hi], by halves
RECURSIVE SumRange(_, _, _)
SumRange(s, lo, hi) ==
    IF lo > hi THEN 0
    ELSE IF lo = hi THEN s[lo]
    ELSE LET mid == (lo + hi) \div 2
         IN  SumRange(s, lo, mid) + SumRange(s, mid + 1, hi)

\* recent.iter().copied().sum()
SumSeq(s) == SumRange(s, 1, Len(s))

\* Faulty variant: take(30) without rev(), the oldest samples
RecentOldest(ft) ==
    [j \in 1..Min(RollingWindow, Len(ft)) |-> ft[j]]

\* frame_times.iter().rev().take(30): the last min(30, len) samples, newest first
RecentOf(ft) ==
    LET k == Min(RollingWindow, Len(ft))
    IN  [j \in 1..k |-> ft[Len(ft) + 1 - j]]

\* Faulty variant: the samples left unsorted
SortNone(s) == s

\* sorted_times.sort_by(|a, b| a.partial_cmp(b).unwrap()): ascending order
SortAsc(s) == SortSeq(s, LAMBDA a, b : a < b)

\* sorted_times.len() / 2
Idx50(n) == n \div 2
\* (sorted_times.len() as f64 * 0.95) as usize.  The f64 product, truncated,
\* equals (95 n) div 100 for every n below 2,000,000 (0.95 is stored as a
\* double less than half an ulp below 0.95, so exact multiples round back up).
Idx95(n) == (n * 95) \div 100
\* (sorted_times.len() as f64 * 0.99) as usize, likewise
Idx99(n) == (n * 99) \div 100

----------------------------------------------------------------------------
(* Command line and startup *)

\* --scale values explored (3 is the default)
Scales == {1, 3}

Configs ==
    [fbo : BOOLEAN, composite : BOOLEAN, duration : 0..MaxDuration,
     sprites : 0..MaxSprites, scale : Scales, textures : 0..MaxTextures]

\* "for i in 0..args.textures { ... textures.push(tex) }": texture i is image i
GenTextures(n) == [k \in 1..n |-> k - 1]

Targets == {"screen", "background_rt", "scene_rt"}

MaterialSlots ==
    {"BackgroundTexture", "AtomTexture", "LightingTexture", "BloomTexture",
     "TerrainSdfTexture", "LevelRawAtomsTexture", "LevelRawRgbasTexture",
     "SceneTexture"}

\* Graphics state when the loop starts: default camera (the screen), empty
\* camera stack, empty surfaces, default material, no texture bound.
InitGfx ==
    [target |-> "screen", stack |-> <<>>,
     surf |-> [t \in Targets |-> <<>>],
     shader |-> "default",
     slots |-> [s \in MaterialSlots |-> "none"]]

NoReport == [elapsed |-> -1, sum |-> 0, n |-> 0]
NoResults == [emitted |-> FALSE]

InitWith(cfgs) ==
    /\ args \in cfgs
    /\ textures = GenTextures(args.textures)
    /\ pc = "setup"
    /\ panic = "none"
    /\ material = "None"
    /\ start_time = 0
    /\ now = 0
    /\ frame_count = 0
    /\ frame_times = <<>>
    /\ last_log_time = 0
    /\ last_report = NoReport
    /\ gfx = InitGfx
    /\ frame_calls = <<>>
    /\ frames_presented = 0
    /\ results = NoResults

Init == InitWith(Configs)

----------------------------------------------------------------------------
(* Draw calls *)

Call(f, a) == [f |-> f, a |-> a]

Item(kind, i, tex, time, extent, src, via, content) ==
    [kind |-> kind, i |-> i, tex |-> tex, time |-> time, extent |-> extent,
     src |-> src, via |-> via, content |-> content]

BandItem(i) == Item("band", i, -1, -1, -1, "none", "none", <<>>)

\* draw_texture_ex(&textures[tex_idx], x - size/2, y - size/2, alpha, size):
\* x, y from (fi, time, min(half_w, half_h)); size and alpha from fi
SpriteItem(i, tex, time, world_visible) ==
    Item("sprite", i, tex, time,
         Min(world_visible[1] \div 2, world_visible[2] \div 2),
         "none", "none", <<>>)

LayerItem(src, via, content) == Item("layer", -1, -1, -1, -1, src, via, content)

\* let world_visible = screen_res / args.scale
WorldVisible(a) == <<ScreenW \div a.scale, ScreenH \div a.scale>>

\* The gradient loop of STEP 1
GradientCalls == [k \in 1..GradientBands |-> Call("draw_rectangle", <<k - 1>>)]

\* draw_sprites(&textures, args.sprites, elapsed as f32, world_visible)
DrawSpritesCall(a, texs, elapsed) ==
    Call("draw_sprites", <<texs, a.sprites, elapsed, WorldVisible(a)>>)

\* STEP 3 with Some(mat)
ShaderCompositeCalls ==
    << Call("set_texture", <<"BackgroundTexture", "background_rt">>),
       Call("set_texture", <<"AtomTexture", "dummy_tex">>),
       Call("set_texture", <<"LightingTexture", "dummy_tex">>),
       Call("set_texture", <<"BloomTexture", "dummy_tex">>),
       Call("set_texture", <<"TerrainSdfTexture", "dummy_tex">>),
       Call("set_texture", <<"LevelRawAtomsTexture", "dummy_tex">>),
       Call("set_texture", <<"LevelRawRgbasTexture", "dummy_tex">>),
       Call("set_texture", <<"SceneTexture", "scene_rt">>),
       Call("gl_use_material", <<>>),
       Call("draw_texture_ex", <<"dummy_tex">>),
       Call("gl_use_default_material", <<>>) >>

\* Faulty variant: the scene blitted before the background
BlitSceneFirst ==
    << Call("draw_texture_ex", <<"scene_rt">>),
       Call("draw_texture_ex", <<"background_rt">>) >>

\* STEP 3 with None: "Direct blit: draw background then scene"
BlitCompositeCalls ==
    << Call("draw_texture_ex", <<"background_rt">>),
       Call("draw_texture_ex", <<"scene_rt">>) >>

\* Faulty variant: the material ignored, always the blit
CompositeAlwaysBlit(mat) == BlitCompositeCalls

\* "if let Some(ref mat) = composite_material { .. } else { .. }"
CompositeCalls(mat) ==
    IF mat = "Some" THEN ShaderCompositeCalls ELSE BlitCompositeCalls

\* STEP 1: the background pass
BackgroundPassCalls ==
    << Call("push_camera_state", <<>>),
       Call("set_camera", <<"background_rt">>),
       Call("clear_background", <<>>) >>
    \o GradientCalls
    \o << Call("pop_camera_state", <<>>) >>

\* Faulty variant: draw_sprites given screen_res instead of world_visible
ScenePassUnscaled(a, texs, elapsed) ==
    << Call("push_camera_state", <<>>),
       Call("set_camera", <<"scene_rt">>),
       Call("clear_background", <<>>),
       Call("draw_sprites", <<texs, a.sprites, elapsed, <<ScreenW, ScreenH>> >>),
       Call("pop_camera_state", <<>>) >>

\* STEP 2: the scene pass
ScenePassCalls(a, texs, elapsed) ==
    << Call("push_camera_state", <<>>),
       Call("set_camera", <<"scene_rt">>),
       Call("clear_background", <<>>),
       DrawSpritesCall(a, texs, elapsed),
       Call("pop_camera_state", <<>>) >>

\* The "if args.fbo" branch of the loop body
FboCalls(a, texs, mat, elapsed) ==
    << Call("clear_background", <<>>) >>
    \o BackgroundPassCalls
    \o ScenePassCalls(a, texs, elapsed)
    \o << Call("set_camera", <<"screen">>) >>
    \o CompositeCalls(mat)

\* The else branch of the loop body
DirectCalls(a, texs, elapsed) ==
    << Call("clear_background", <<>>),
       Call("set_camera", <<"screen">>),
       DrawSpritesCall(a, texs, elapsed) >>

FrameCalls(a, texs, mat, elapsed) ==
    IF a.fbo THEN FboCalls(a, texs, mat, elapsed) ELSE DirectCalls(a, texs, elapsed)

----------------------------------------------------------------------------
(* What the calls do to the graphics state *)

\* let tex_idx = i % textures.len()
TexIdx(i, texs) == i % Len(texs)

\* fn draw_sprites: one draw_texture_ex per i in 0..count
SpritesDrawn(texs, count, time, world_visible) ==
    [k \in 1..count |->
        SpriteItem(k - 1, texs[TexIdx(k - 1, texs) + 1], time, world_visible)]

\* "i % textures.len()" panics when the divisor is zero
DrawSpritesPanics(texs, count) == count > 0 /\ Len(texs) = 0

Draw(g, items) == [g EXCEPT !.surf[g.target] = @ \o items]

\* The composite fragment shader: bg = texture(BackgroundTexture),
\* scene = texture(SceneTexture), mix(bg.rgb, scene.rgb, scene.a)
ShaderOutput(g) ==
    << LayerItem(g.slots["BackgroundTexture"], "shader",
                 IF g.slots["BackgroundTexture"] \in Targets
                 THEN g.surf[g.slots["BackgroundTexture"]] ELSE <<>>),
       LayerItem(g.slots["SceneTexture"], "shader",
                 IF g.slots["SceneTexture"] \in Targets
                 THEN g.surf[g.slots["SceneTexture"]] ELSE <<>>) >>

BlitOutput(g, tex) ==
    << LayerItem(tex, "blit", IF tex \in Targets THEN g.surf[tex] ELSE <<>>) >>

Exec(g, c) ==
    CASE c.f = "clear_background" -> [g EXCEPT !.surf[g.target] = <<>>]
      [] c.f = "push_camera_state" -> [g EXCEPT !.stack = Append(@, g.target)]
      [] c.f = "pop_camera_state" ->
            IF g.stack = <<>> THEN g
            ELSE [g EXCEPT !.target = g.stack[Len(g.stack)],
                           !.stack = SubSeq(@, 1, Len(@) - 1)]
      [] c.f = "set_camera" -> [g EXCEPT !.target = c.a[1]]
      [] c.f = "draw_rectangle" -> Draw(g, <<BandItem(c.a[1])>>)
      [] c.f = "draw_sprites" ->
            Draw(g, SpritesDrawn(c.a[1], c.a[2], c.a[3], c.a[4]))
      [] c.f = "set_texture" -> [g EXCEPT !.slots[c.a[1]] = c.a[2]]
      [] c.f = "gl_use_material" -> [g EXCEPT !.shader = "composite"]
      [] c.f = "gl_use_default_material" -> [g EXCEPT !.shader = "default"]
      [] c.f = "draw_texture_ex" ->
            IF g.shader = "composite" THEN Draw(g, ShaderOutput(g))
            ELSE Draw(g, BlitOutput(g, c.a[1]))

CallPanics(c) == c.f = "draw_sprites" /\ DrawSpritesPanics(c.a[1], c.a[2])

\* Runs the calls in order (first half, then second half); a panicking call
\* ends the frame and the process.  Yields the graphics state, the calls made
\* and whether the last one panicked.
RECURSIVE RunCalls(_, _)
RunCalls(g, calls) ==
    IF Len(calls) = 0 THEN [g |-> g, calls |-> <<>>, panicked |-> FALSE]
    ELSE IF Len(calls) = 1
    THEN IF CallPanics(calls[1])
         THEN [g |-> g, calls |-> calls, panicked |-> TRUE]
         ELSE [g |-> Exec(g, calls[1]), calls |-> calls, panicked |-> FALSE]
    ELSE LET h == Len(calls) \div 2
             l == RunCalls(g, SubSeq(calls, 1, h))
         IN  IF l.panicked THEN l
             ELSE LET r == RunCalls(l.g, SubSeq(calls, h + 1, Len(calls)))
                  IN  [g |-> r.g, calls |-> l.calls \o r.calls,
                       panicked |-> r.panicked]

----------------------------------------------------------------------------
(* main *)

\* Faulty variant: a failed shader setup falls back to None
LoadMaterialFallback(a, ok) == IF a.composite /\ ok THEN "Some" ELSE "None"

\* "let composite_material = if args.composite { Some(load_material(..).unwrap()) }
\*  else { None }", then the loop's variables
LoadMaterialOutcome(a, ok) ==
    IF a.composite THEN (IF ok THEN "Some" ELSE "panic") ELSE "None"

Setup(ok) ==
    /\ pc = "setup"
    /\ LET m == LoadMaterialOutcome(args, ok)
       IN  IF m = "panic"
           THEN /\ pc' = "panicked"
                /\ panic' = "unwrap_material"
                /\ UNCHANGED <<material, start_time, now, last_log_time>>
           ELSE /\ pc' = "loop"
                /\ material' = m
                /\ start_time' = StartTime
                /\ now' = StartTime
                /\ last_log_time' = StartTime
                /\ UNCHANGED panic
    /\ UNCHANGED <<args, textures, frame_count, frame_times, last_report, gfx,
                   frame_calls, frames_presented, results>>

\* get_time() read after `adv` more ticks
Elapsed(t) == t - start_time

\* Faulty variant: the loop exits only once elapsed exceeds the duration
LoopExitsStrict(elapsed, a) == elapsed > a.duration

\* "if elapsed >= args.duration as f64 { break; }"
LoopExits(elapsed, a) == elapsed >= a.duration

LoopExit(adv) ==
    /\ pc = "loop"
    /\ LoopExits(Elapsed(now + adv), args)
    /\ now' = now + adv
    /\ pc' = "report"
    /\ UNCHANGED <<args, textures, panic, material, start_time, frame_count,
                   frame_times, last_log_time, last_report, gfx, frame_calls,
                   frames_presented, results>>

\* "if now - last_log_time >= 0.5"
LogDue(t, last) == t - last >= LogInterval

\* recent, avg_dt (as sum over count), the eprintln of the progress line
ProgressReport(elapsed, ft) ==
    [elapsed |-> elapsed, sum |-> SumSeq(RecentOf(ft)), n |-> Len(RecentOf(ft))]

\* One iteration of the loop that does not break, up to next_frame().await.
\* (The pixel read-back of frame 10 only reads and prints; it is left out.)
LoopFrame(adv, dt) ==
    /\ pc = "loop"
    /\ ~LoopExits(Elapsed(now + adv), args)
    /\ now' = now + adv
    /\ frame_times' = Append(frame_times, dt)
    /\ frame_count' = frame_count + 1
    /\ IF LogDue(now', last_log_time)
       THEN /\ last_report' = ProgressReport(Elapsed(now'), frame_times')
            /\ last_log_time' = now'
       ELSE UNCHANGED <<last_report, last_log_time>>
    /\ LET r == RunCalls(gfx, FrameCalls(args, textures, material, Elapsed(now')))
       IN  /\ gfx' = r.g
           /\ frame_calls' = r.calls
           /\ IF r.panicked
              THEN /\ pc' = "panicked"
                   /\ panic' = "rem_by_zero"
                   /\ UNCHANGED frames_presented
              ELSE /\ pc' = "loop"
                   /\ frames_presented' = frames_presented + 1
                   /\ UNCHANGED panic
    /\ UNCHANGED <<args, textures, material, start_time, results>>

\* sorted_times[..] panics when the index is not below the length
IndexPanics(sorted) ==
    \/ Idx50(Len(sorted)) >= Len(sorted)
    \/ Idx95(Len(sorted)) >= Len(sorted)
    \/ Idx99(Len(sorted)) >= Len(sorted)

\* total_time, avg_fps (as frame_count over total_time), the sorted copy, the
\* three percentiles and the results block
Results(a, total_time, fc, ft) ==
    LET sorted == SortAsc(ft)
    IN  [emitted |-> TRUE, fbo |-> a.fbo, composite |-> a.composite,
         total_frames |-> fc, fps_frames |-> fc, fps_time |-> total_time,
         p50 |-> sorted[Idx50(Len(sorted)) + 1],
         p95 |-> sorted[Idx95(Len(sorted)) + 1],
         p99 |-> sorted[Idx99(Len(sorted)) + 1]]

\* Faulty variant: frame_times itself is sorted
ReportSortInPlace(adv) ==
    /\ pc = "report"
    /\ now' = now + adv
    /\ frame_times' = SortAsc(frame_times)
    /\ IF IndexPanics(frame_times')
       THEN /\ pc' = "panicked"
            /\ panic' = "index_out_of_bounds"
            /\ UNCHANGED results
       ELSE /\ pc' = "done"
            /\ results' = Results(args, Elapsed(now'), frame_count, frame_times)
            /\ UNCHANGED panic
    /\ UNCHANGED <<args, textures, material, start_time, frame_count,
                   last_log_time, last_report, gfx, frame_calls, frames_presented>>

\* The code after the loop
Report(adv) ==
    /\ pc = "report"
    /\ now' = now + adv
    /\ IF IndexPanics(SortAsc(frame_times))
       THEN /\ pc' = "panicked"
            /\ panic' = "index_out_of_bounds"
            /\ UNCHANGED results
       ELSE /\ pc' = "done"
            /\ results' = Results(args, Elapsed(now'), frame_count, frame_times)
            /\ UNCHANGED panic
    /\ UNCHANGED <<args, textures, material, start_time, frame_count, frame_times,
                   last_log_time, last_report, gfx, frame_calls, frames_presented>>

----------------------------------------------------------------------------
(* Environment: the clock and the frame times the display delivers *)

\* get_time() at the loop head: no time need pass between start_time and the
\* first reading; after next_frame().await the clock has advanced
LoopAdvances == (IF frame_count = 0 THEN 0 ELSE 1)..MaxAdvance

\* get_time() after the loop: the clock may or may not have ticked
ReportAdvances == {0, 1}

\* get_frame_time()
FrameTimeValues == 1..MaxDt

Next ==
    \/ \E ok \in BOOLEAN : Setup(ok)
    \/ \E adv \in LoopAdvances : LoopExit(adv)
    \/ \E adv \in LoopAdvances, dt \in FrameTimeValues : LoopFrame(adv, dt)
    \/ \E adv \in ReportAdvances : Report(adv)

Spec == Init /\ [][Next]_vars

----------------------------------------------------------------------------
(* Long runs: one configuration, run lengths up to MaxLongDuration ticks, a  *)
(* free clock and a fixed script of frame times, so that runs of more than   *)
(* RollingWindow and of more than 100 frames are explored.                   *)

LongDurations ==
    {d \in 1..MaxLongDuration : \E k \in 0..7 : d = MaxLongDuration \div (2 ^ k)}

LongConfigs ==
    [fbo : {FALSE}, composite : {FALSE}, duration : LongDurations,
     sprites : {1}, scale : {1}, textures : {1}]

\* get_frame_time() of frame i: a jittering base with a slow frame every 10th
\* and a slower one every 50th
ScriptDt(i) ==
    1 + (i % 3) + (IF i % 10 = 0 THEN 3 ELSE 0) + (IF i % 50 = 0 THEN 4 ELSE 0)

InitLong == InitWith(LongConfigs)

NextLong ==
    \/ \E ok \in BOOLEAN : Setup(ok)
    \/ \E adv \in LoopAdvances : LoopExit(adv)
    \/ \E adv \in LoopAdvances : LoopFrame(adv, ScriptDt(frame_count + 1))
    \/ \E adv \in ReportAdvances : Report(adv)

SpecLong == InitLong /\ [][NextLong]_vars

----------------------------------------------------------------------------
(* Properties *)

Terminated == pc \in {"done", "panicked"}

\* The state right after an iteration that rendered a frame: `now` is the
\* time that iteration read
AfterFrame == pc = "loop" /\ frame_count > 0

CallIdx(f) == {k \in 1..Len(frame_calls) : frame_calls[k].f = f}

BindIdx(rt) == {k \in CallIdx("set_camera") : frame_calls[k].a[1] = rt}

BlitIdx(tex) == {k \in CallIdx("draw_texture_ex") : frame_calls[k].a[1] = tex}

\* The one element of a singleton set of indices (0 when it is not one)
TheIdx(S) == IF Cardinality(S) = 1 THEN CHOOSE k \in S : TRUE ELSE 0

\* C1: a run with --duration 0 records no sample, renders no frame, and its
\* reporter completes normally and emits the results block (no panic on the
\* empty sample sequence).
C1_ZeroDurationReports ==
    (args.duration = 0 /\ Terminated /\ panic # "unwrap_material")
        => /\ frame_times = <<>>
           /\ frame_count = 0
           /\ frames_presented = 0
           /\ pc = "done"
           /\ results.emitted

\* v is the sample at index i (from 0) of the samples in ascending order
AtSortedIndex(ft, i, v) ==
    /\ v \in Range(ft)
    /\ Cardinality({j \in 1..Len(ft) : ft[j] < v}) <= i
    /\ i < Cardinality({j \in 1..Len(ft) : ft[j] <= v})

\* floor(n * pct / 100)
FloorPct(n, pct) == CHOOSE k \in 0..n : 100 * k <= pct * n /\ pct * n < 100 * (k + 1)

\* C2: for n >= 1 samples the reporter completes and reports P50, P95, P99
\* as the samples at indices n div 2, floor(0.95 n), floor(0.99 n) of the
\* ascending order; each index is below n; P50 <= P95 <= P99; and
\* [10, 20, 15, 12, 30] gives 15, 30, 30.
C2_Percentiles ==
    LET n == Len(frame_times)
        ex == Results(args, 1, 5, <<10, 20, 15, 12, 30>>)
    IN  /\ (pc = "panicked" /\ panic = "index_out_of_bounds") => n = 0
        /\ pc = "done" =>
            /\ n >= 1
            /\ results.emitted
            /\ n \div 2 < n /\ FloorPct(n, 95) < n /\ FloorPct(n, 99) < n
            /\ AtSortedIndex(frame_times, n \div 2, results.p50)
            /\ AtSortedIndex(frame_times, FloorPct(n, 95), results.p95)
            /\ AtSortedIndex(frame_times, FloorPct(n, 99), results.p99)
            /\ results.p50 <= results.p95
            /\ results.p95 <= results.p99
        /\ ex.p50 = 15 /\ ex.p95 = 30 /\ ex.p99 = 30

C2_Witness ==
    /\ pc = "done"
    /\ Len(frame_times) > 100
    /\ results.p50 < results.p95
    /\ results.p95 < results.p99
    /\ results.p99 < frame_times[50]

SpriteSurface == IF args.fbo THEN gfx.surf["scene_rt"] ELSE gfx.surf["screen"]

SpritesOn(surface) ==
    SelectSeq(surface, LAMBDA it : it.kind = "sprite")

\* C4: every rendered frame calls draw_sprites exactly once, with (textures,
\* sprites, elapsed, screen resolution / scale), and the sprites it draws are
\* determined by sprite count, texture count, scale and elapsed time alone,
\* whichever of --fbo / --composite is set.
C4_ContentIndependentOfPath ==
    AfterFrame =>
        /\ Cardinality(CallIdx("draw_sprites")) = 1
        /\ frame_calls[TheIdx(CallIdx("draw_sprites"))].a =
              << textures, args.sprites, now - start_time,
                 <<ScreenW \div args.scale, ScreenH \div args.scale>> >>
        /\ Len(SpritesOn(SpriteSurface)) = args.sprites
        /\ \A k \in 1..args.sprites :
              LET sp == SpritesOn(SpriteSurface)[k]
              IN  /\ sp.i = k - 1
                  /\ sp.tex = (k - 1) % args.textures
                  /\ sp.time = now - start_time
                  /\ sp.extent = (ScreenH \div args.scale) \div 2

C4_Witness ==
    /\ AfterFrame /\ frame_count >= 2
    /\ args.fbo /\ args.composite /\ args.sprites = 2 /\ args.scale = 3

\* The calls of a frame that only a render-target path makes
OffscreenCalls ==
    CallIdx("push_camera_state") \cup CallIdx("pop_camera_state")
    \cup BindIdx("background_rt") \cup BindIdx("scene_rt")
    \cup CallIdx("draw_rectangle") \cup CallIdx("draw_texture_ex")
    \cup CallIdx("set_texture") \cup CallIdx("gl_use_material")

FrameIsDirect ==
    /\ OffscreenCalls = {}
    /\ gfx.surf["background_rt"] = <<>> /\ gfx.surf["scene_rt"] = <<>>
    /\ \A k \in 1..Len(gfx.surf["screen"]) : gfx.surf["screen"][k].kind = "sprite"

FrameIsShader ==
    /\ Cardinality(CallIdx("gl_use_material")) = 1
    /\ Cardinality(CallIdx("draw_texture_ex")) = 1
    /\ TheIdx(CallIdx("gl_use_material")) < TheIdx(CallIdx("draw_texture_ex"))
    /\ \A k \in 1..Len(gfx.surf["screen"]) : gfx.surf["screen"][k].via = "shader"

FrameIsBlit ==
    /\ CallIdx("gl_use_material") = {} /\ CallIdx("set_texture") = {}
    /\ Cardinality(BlitIdx("background_rt")) = 1
    /\ Cardinality(BlitIdx("scene_rt")) = 1
    /\ \A k \in 1..Len(gfx.surf["screen"]) : gfx.surf["screen"][k].via = "blit"

PathCount ==
    (IF FrameIsDirect THEN 1 ELSE 0) + (IF FrameIsShader THEN 1 ELSE 0)
    + (IF FrameIsBlit THEN 1 ELSE 0)

\* C5: the render path never changes during a run, and every rendered frame
\* takes exactly one path: Direct without --fbo (whatever --composite is),
\* the shader composite with --fbo --composite, the blit with --fbo alone.
C5_PathFixed ==
    [][ /\ args' = args
        /\ pc # "setup" => material' = material
        /\ (pc' = "loop" /\ frame_count' > 0) =>
            /\ PathCount' = 1
            /\ ~args.fbo => FrameIsDirect'
            /\ (args.fbo /\ args.composite) => FrameIsShader'
            /\ (args.fbo /\ ~args.composite) => FrameIsBlit'
      ]_vars

C5_Witness ==
    /\ AfterFrame /\ frame_count >= 2
    /\ ~args.fbo /\ args.composite /\ args.sprites >= 1

\* C6: when --composite is given and the shader setup fails, the process ends
\* before the loop: no frame, no sample, no results block, and never a run
\* on the blit path in its place; without --composite no shader is set up
\* and the run cannot end on a shader failure.  Nothing happens after a panic.
C6_ShaderFailureFatal ==
    [][ /\ pc # "panicked"
        /\ panic' = "unwrap_material" =>
            /\ args.composite /\ pc = "setup" /\ pc' = "panicked"
            /\ frame_count' = 0 /\ frame_times' = <<>> /\ frames_presented' = 0
            /\ frame_calls' = <<>> /\ gfx' = InitGfx
            /\ ~results'.emitted /\ material' = "None"
        /\ (args.composite /\ pc' \in {"loop", "report", "done"}) => material' = "Some"
        /\ ~args.composite => (material' = "None" /\ panic' # "unwrap_material")
      ]_vars

C6_Witness == pc = "panicked" /\ panic = "unwrap_material" /\ args.fbo

\* C7: for every accepted command line, whenever sprites are drawn the
\* texture count is at least 1, so "i mod textureCount" never divides by zero
\* and every sprite's texture index is i mod textureCount, within the set.
C7_TextureIndexValid ==
    /\ panic # "rem_by_zero"
    /\ (frame_calls # <<>> /\ args.sprites > 0) => Len(textures) >= 1
    /\ \A k \in 1..Len(SpritesOn(SpriteSurface)) :
          LET sp == SpritesOn(SpriteSurface)[k]
          IN  sp.tex = sp.i % Len(textures) /\ sp.tex \in 0..(Len(textures) - 1)

\* C8: an iteration that does not exit reports progress iff at least 0.5 s
\* (LogInterval ticks) have passed since the last report (since start for
\* the first); the report averages the last min(30, n) samples, n >= 1
\* counting this iteration's, and moves the report timer to now; otherwise
\* timer and report are unchanged.  So reports are at least 0.5 s apart.
C8_ProgressReports ==
    [][ /\ (pc = "loop" /\ frame_count' = frame_count + 1) =>
            LET n == Len(frame_times')
                k == IF n < 30 THEN n ELSE 30
            IN  IF now' - last_log_time >= 2
                THEN /\ n >= 1 /\ k >= 1
                     /\ last_report'.n = k
                     /\ last_report'.sum = SumRange(frame_times', n - k + 1, n)
                     /\ last_report'.elapsed = now' - start_time
                     /\ last_log_time' = now'
                ELSE UNCHANGED <<last_report, last_log_time>>
        /\ (pc # "setup" /\ frame_count' = frame_count) =>
            UNCHANGED <<last_report, last_log_time>>
        /\ (last_report' # last_report /\ last_report # NoReport) =>
            last_report'.elapsed - last_report.elapsed >= 2
      ]_vars

C8_Witness ==
    /\ pc = "loop" /\ frame_count > 40
    /\ last_report.n = 30
    /\ last_log_time = now
    /\ last_report.sum # SumRange(frame_times, 1, 30)

\* C9: in every frame of an --fbo run the background target is bound,
\* cleared and filled with the 20 bands, then the scene target is bound,
\* cleared and filled with the sprites, then the screen camera is set and the
\* two targets are composited, background below and scene above (the blit
\* draws the background first); each offscreen pass is between a push and a
\* pop of the camera state, balanced at the end of the frame; both targets
\* hold only what this frame drew when they are read.
C9_PassOrder ==
    (AfterFrame /\ args.fbo) =>
        LET c == frame_calls
            b == TheIdx(BindIdx("background_rt"))
            s == TheIdx(BindIdx("scene_rt"))
            v == TheIdx(BindIdx("screen"))
            screen == gfx.surf["screen"]
        IN  /\ b > 1 /\ b < s /\ s < v
            /\ c[b - 1].f = "push_camera_state" /\ c[b + 1].f = "clear_background"
            /\ c[s - 1].f = "push_camera_state" /\ c[s + 1].f = "clear_background"
            /\ Cardinality(CallIdx("draw_rectangle")) = 20
            /\ \A k \in CallIdx("draw_rectangle") : b + 1 < k /\ k < s - 2
            /\ c[s - 2].f = "pop_camera_state"
            /\ \A k \in CallIdx("draw_sprites") : s + 1 < k /\ k < v - 1
            /\ c[v - 1].f = "pop_camera_state"
            /\ Cardinality(CallIdx("push_camera_state")) = 2
            /\ Cardinality(CallIdx("pop_camera_state")) = 2
            /\ gfx.stack = <<>> /\ gfx.target = "screen"
            /\ CallIdx("draw_texture_ex") # {}
            /\ \A k \in CallIdx("draw_texture_ex") : k > v
            /\ material = "None" =>
                  TheIdx(BlitIdx("background_rt")) < TheIdx(BlitIdx("scene_rt"))
            /\ Len(screen) = 2
            /\ screen[1].kind = "layer" /\ screen[1].src = "background_rt"
            /\ screen[2].kind = "layer" /\ screen[2].src = "scene_rt"
            /\ screen[1].content = gfx.surf["background_rt"]
            /\ screen[2].content = gfx.surf["scene_rt"]
            /\ Len(screen[1].content) = 20
            /\ \A k \in 1..20 :
                  screen[1].content[k].kind = "band" /\ screen[1].content[k].i = k - 1
            /\ Len(screen[2].content) = args.sprites
            /\ \A k \in 1..args.sprites :
                  /\ screen[2].content[k].kind = "sprite"
                  /\ screen[2].content[k].time = now - start_time

C9_Witness ==
    /\ AfterFrame /\ frame_count >= 2 /\ args.fbo /\ material = "None"
    /\ args.sprites >= 1

\* C10: the sample sequence only grows, by one sample at its end per
\* iteration that does not exit; at every loop head and at Finished its
\* length is frame_count and the number of frames rendered; the end-of-run
\* sort leaves it as recorded; the reported total is the number of samples.
C10_SamplesAppendOnly ==
    [][ /\ Len(frame_times') >= Len(frame_times)
        /\ Len(frame_times') <= Len(frame_times) + 1
        /\ SubSeq(frame_times', 1, Len(frame_times)) = frame_times
        /\ (pc = "loop" /\ pc' \in {"loop", "panicked"}) =>
              Len(frame_times') = Len(frame_times) + 1
        /\ pc' \in {"loop", "report", "done"} =>
              /\ Len(frame_times') = frame_count'
              /\ frame_count' = frames_presented'
        /\ pc' = "done" =>
              /\ frame_times' = frame_times
              /\ results'.total_frames = Len(frame_times')
      ]_vars

C10_Witness ==
    /\ pc = "done" /\ frame_times = <<2, 1>> /\ results.total_frames = 2
    /\ frames_presented = 2

====
